---- MODULE Spec2Model ----
(***************************************************************************)
(* gptWare password generator: password_generator.py (the synchronous      *)
(* variant) and password_generate_async.py (the asyncio variant).          *)
(*                                                                         *)
(* One behaviour is one run of main() / main_async(): the parsed arguments *)
(* are fixed by Init, and the actions are the steps of the chosen          *)
(* pipeline (shannon, nist, keepassxc).                                    *)
(*                                                                         *)
(* A password is a sequence of symbols; a symbol is its 1-based position   *)
(* in CHARSET.  Shannon entropies are in thousandths of a bit, oracle      *)
(* (keepassxc-cli) entropies and the cushion in whole bits.  An optional   *)
(* value (a Python variable not yet bound, or None) is a sequence of       *)
(* length 0 or 1.                                                          *)
(***************************************************************************)
EXTENDS Integers, Sequences, FiniteSets, TLC

VARIABLES
    variant,                    \* "sync": password_generator.py, "async": password_generate_async.py
    source,                     \* the random source behind secrets.choice: "secrets", or "fixed" (test substitute)
    args,                       \* argparse result: length, samples, method, cushion, generate
    pc,                         \* position in main / main_async
    error,                      \* the uncaught exception that ended the run, or "none"
    password_list,              \* password_list / sample_passwords: the batch
    stats_log,                  \* every "Entropy Range / Average Entropy" report logged so far
    max_entropy,                \* max_entropy: the threshold (shannon) / the batch maximum (keepassxc)
    eligible_passwords,         \* shannon: (password, entropy) pairs meeting the threshold
    non_duplicated_passwords,   \* shannon: selectable passwords; keepassxc: the accepted list
    total_duplicates,           \* shannon: the logged "Total Duplicates"
    most_common,                \* shannon: the logged "Password with Most Duplicates"
    selected_password,          \* selected_password / chosen_password
    warning,                    \* the logging.warning issued, or "none"
    oracle_reports,             \* what keepassxc-cli answered for each batch element
    entropy_values,             \* keepassxc: entropy_values
    strongest_password,         \* keepassxc: strongest_password
    min_accepted_entropy,       \* keepassxc: min_accepted_entropy (the floor)
    password,                   \* keepassxc loop: password
    entropy,                    \* keepassxc loop: entropy
    completed_tasks,            \* keepassxc: the oracle calls of the batch that finished, in order of completion
    accepted_log                \* keepassxc loop: for each accepted password, its score and oracle report when added

vars == <<variant, source, args, pc, error, password_list, stats_log, max_entropy,
          eligible_passwords, non_duplicated_passwords, total_duplicates, most_common,
          selected_password, warning, oracle_reports, entropy_values, strongest_password,
          min_accepted_entropy, password, entropy, completed_tasks, accepted_log>>

shannonVars == <<eligible_passwords, total_duplicates, most_common>>

keepassxcVars == <<oracle_reports, entropy_values, strongest_password,
                   min_accepted_entropy, password, entropy, completed_tasks, accepted_log>>

-----------------------------------------------------------------------------
(* Bounds of the model *)

MaxLength == 2              \* --length ranges over -1..MaxLength
MaxSamples == 3             \* --samples ranges over -1..MaxSamples
SymbolBound == 2            \* the random source draws among the first SymbolBound symbols of CHARSET
MaxBatchSymbols == 6        \* shannon, nist: length * samples is at most MaxBatchSymbols
MaxOracleStrings == 2       \* keepassxc: --length leaves the source at most MaxOracleStrings strings
MaxOracleSamples == 2       \* keepassxc: --samples is at most MaxOracleSamples
MaxOracleRounds == 4        \* keepassxc: samples * generate is at most MaxOracleRounds
MaxBits == 2                \* keepassxc-cli reports 0..MaxBits bits
MaxCushion == 1             \* --cushion ranges over 0..MaxCushion
MaxGenerate == 3            \* --generate ranges over -1..MaxGenerate

-----------------------------------------------------------------------------
(* Constants of the program *)

CharsetLength == 94

CHARSET == 1..CharsetLength

Methods == {"shannon", "nist", "keepassxc"}

\* floor(1000 * log2(n)) for n = 1..9
Log2Milli == <<0, 1000, 1584, 2000, 2321, 2584, 2807, 3000, 3169>>

\* The candidates of the end-to-end scenario: "aB3!xY7#", "Qw2@Lp9$", "Zr5^Mn1&", "Tv8*Wx4("
ScenarioPool ==
    { <<1, 28, 56, 63, 24, 51, 60, 65>>,
      <<43, 23, 55, 84, 38, 16, 62, 66>>,
      <<52, 18, 58, 88, 39, 14, 54, 68>>,
      <<46, 22, 61, 72, 49, 24, 57, 70>> }

-----------------------------------------------------------------------------
(* Helpers *)

Range(s) == { s[i] : i \in 1..Len(s) }

RECURSIVE SumOver(_, _)
SumOver(S, f) ==
    IF S = {} THEN 0
    ELSE LET x == CHOOSE y \in S : TRUE
         IN  f[x] + SumOver(S \ {x}, f)

RECURSIVE SumSeq(_)
SumSeq(s) == IF s = <<>> THEN 0 ELSE Head(s) + SumSeq(Tail(s))

MinOf(S) == CHOOSE x \in S : \A y \in S : x <= y

MaxOf(S) == CHOOSE x \in S : \A y \in S : x >= y

\* collections.Counter(items)
Counter(items) ==
    [ p \in Range(items) |-> Cardinality({ i \in 1..Len(items) : items[i] = p }) ]

-----------------------------------------------------------------------------
(* Generation *)

\* What the random source can return for one call of generate_password
Symbols == 1..SymbolBound

\* The mutant of generate_password: one symbol too many
generate_password_long(src, length) ==
    IF src = "fixed" THEN { c \in ScenarioPool : Len(c) = length }
    ELSE IF length < 0 THEN { <<>> }
    ELSE [ 1..(length + 1) -> Symbols ]

\* generate_password(length): ''.join(secrets.choice(CHARSET) for _ in range(length));
\* range(length) is empty for length <= 0
generate_password(src, length) ==
    IF src = "fixed" THEN { c \in ScenarioPool : Len(c) = length }
    ELSE IF length <= 0 THEN { <<>> }
    ELSE [ 1..length -> Symbols ]

\* generate_sample_passwords(password_length, num_samples): the possible batches
generate_sample_passwords(src, password_length, num_samples) ==
    IF num_samples <= 0 THEN { <<>> }
    ELSE [ 1..num_samples -> generate_password(src, password_length) ]

-----------------------------------------------------------------------------
(* Shannon estimator and statistics *)

\* calculate_entropy_shannon(password): -sum(p * log2(p)), p = count / len(password)
calculate_entropy_shannon(pw) ==
    LET n == Len(pw)
        char_count == Counter(pw)
        term == [ c \in DOMAIN char_count |->
                    char_count[c] * (Log2Milli[n] - Log2Milli[char_count[c]]) ]
    IN  IF n = 0 THEN 0 ELSE SumOver(DOMAIN char_count, term) \div n

\* calculate_and_display_entropy(passwords): the statistics it logs and the max it
\* returns; raises ZeroDivisionError on an empty list
calculate_and_display_entropy(passwords) ==
    LET scores == [ i \in 1..Len(passwords) |-> calculate_entropy_shannon(passwords[i]) ]
    IN  IF Len(passwords) = 0
        THEN [ raised |-> TRUE, exception |-> "ZeroDivisionError" ]
        ELSE [ raised |-> FALSE,
               min |-> MinOf(Range(scores)),
               max |-> MaxOf(Range(scores) \cup {0}),
               average |-> SumSeq(scores) \div Len(passwords) ]

StatsOf(r) == [ min |-> r.min, max |-> r.max, average |-> r.average ]

\* The mutant of generate_eligible_passwords: the comparison is strict
generate_eligible_passwords_strict(passwords, threshold) ==
    SelectSeq([ i \in 1..Len(passwords) |->
                  [ password |-> passwords[i],
                    entropy |-> calculate_entropy_shannon(passwords[i]) ] ],
              LAMBDA e : e.entropy > threshold)

\* generate_eligible_passwords(password_list, max_entropy) / the loop of main
generate_eligible_passwords(passwords, threshold) ==
    SelectSeq([ i \in 1..Len(passwords) |->
                  [ password |-> passwords[i],
                    entropy |-> calculate_entropy_shannon(passwords[i]) ] ],
              LAMBDA e : e.entropy >= threshold)

\* The mutant of NonDuplicated: a recurring password is kept
NonDuplicatedKeepsRecurring(eligible, passwords) ==
    [ i \in 1..Len(eligible) |-> eligible[i].password ]

\* The mutant of NonDuplicated: the first occurrence of a recurring password is kept
NonDuplicatedKeepsFirst(eligible, passwords) ==
    LET kept[i \in 0..Len(eligible)] ==
            IF i = 0 THEN <<>>
            ELSE IF eligible[i].password \in Range(kept[i - 1]) THEN kept[i - 1]
            ELSE Append(kept[i - 1], eligible[i].password)
    IN  kept[Len(eligible)]

\* non_duplicated_passwords: the eligible passwords that password_counts counts once
NonDuplicated(eligible, passwords) ==
    LET password_counts == Counter(passwords)
        kept == SelectSeq(eligible, LAMBDA e : password_counts[e.password] = 1)
    IN  [ i \in 1..Len(kept) |-> kept[i].password ]

\* sorted(password_counts, key=count, reverse=True)[0] with its count: the sort is
\* stable, and a Counter iterates in order of first occurrence
MostCommon(passwords) ==
    LET password_counts == Counter(passwords)
        top == MaxOf({ password_counts[p] : p \in DOMAIN password_counts })
        first == MinOf({ i \in 1..Len(passwords) : password_counts[passwords[i]] = top })
    IN  [ password |-> passwords[first], count |-> top ]

-----------------------------------------------------------------------------
(* Initial states *)

ArgsSet ==
    { a \in [ length : -1..MaxLength, samples : -1..MaxSamples, method : Methods,
              cushion : 0..MaxCushion, generate : -1..MaxGenerate ] :
        IF a.method = "keepassxc"
        THEN /\ Cardinality(generate_password("secrets", a.length)) <= MaxOracleStrings
             /\ a.samples <= MaxOracleSamples
             /\ (a.samples >= 1 /\ a.generate >= 1) => a.samples * a.generate <= MaxOracleRounds
        ELSE /\ a.cushion = 0
             /\ a.generate = 0
             /\ (a.length >= 1 /\ a.samples >= 1) => a.length * a.samples <= MaxBatchSymbols }

InitRest ==
    /\ pc = "start"
    /\ error = "none"
    /\ password_list = <<>>
    /\ stats_log = <<>>
    /\ max_entropy = <<>>
    /\ eligible_passwords = <<>>
    /\ non_duplicated_passwords = <<>>
    /\ total_duplicates = <<>>
    /\ most_common = <<>>
    /\ selected_password = <<>>
    /\ warning = "none"
    /\ oracle_reports = <<>>
    /\ entropy_values = <<>>
    /\ strongest_password = <<>>
    /\ min_accepted_entropy = <<>>
    /\ password = <<>>
    /\ entropy = <<>>
    /\ completed_tasks = <<>>
    /\ accepted_log = <<>>

Init ==
    /\ variant \in {"sync", "async"}
    /\ source = "secrets"
    /\ args \in ArgsSet
    /\ InitRest

-----------------------------------------------------------------------------
(* Steps common to the pipelines *)

Crash(exception) ==
    /\ pc' = "crashed"
    /\ error' = exception

\* generate_sample_passwords / generate_sample_passwords_async
GenerateSamples ==
    /\ pc = "start"
    /\ password_list' \in generate_sample_passwords(source, args.length, args.samples)
    /\ pc' = CASE args.method = "shannon" -> "stats"
               [] args.method = "nist" -> "choose"
               [] OTHER -> "score"
    /\ UNCHANGED <<variant, source, args, error, stats_log, max_entropy,
                   non_duplicated_passwords, selected_password, warning>>
    /\ UNCHANGED shannonVars
    /\ UNCHANGED keepassxcVars

-----------------------------------------------------------------------------
(* The shannon pipeline *)

\* max_entropy = calculate_and_display_entropy(password_list)
ShannonStats ==
    /\ pc = "stats"
    /\ LET r == calculate_and_display_entropy(password_list)
       IN  IF r.raised
           THEN /\ Crash(r.exception)
                /\ UNCHANGED <<stats_log, max_entropy>>
           ELSE /\ stats_log' = Append(stats_log, StatsOf(r))
                /\ max_entropy' = <<r.max>>
                /\ pc' = "eligible"
                /\ UNCHANGED error
    /\ UNCHANGED <<variant, source, args, password_list, non_duplicated_passwords,
                   selected_password, warning>>
    /\ UNCHANGED shannonVars
    /\ UNCHANGED keepassxcVars

\* eligible_passwords: the batch filtered by entropy >= max_entropy
ShannonEligible ==
    /\ pc = "eligible"
    /\ eligible_passwords' = generate_eligible_passwords(password_list, max_entropy[1])
    /\ pc' = "select"
    /\ UNCHANGED <<variant, source, args, error, password_list, stats_log, max_entropy,
                   non_duplicated_passwords, selected_password, warning,
                   total_duplicates, most_common>>
    /\ UNCHANGED keepassxcVars

\* if eligible_passwords: ... else: warning.  The synchronous variant first calls
\* calculate_and_display_entropy again, on the eligible passwords.
ShannonSelect ==
    /\ pc = "select"
    /\ IF eligible_passwords # <<>>
       THEN LET eligible_only == [ i \in 1..Len(eligible_passwords) |->
                                     eligible_passwords[i].password ]
                r == calculate_and_display_entropy(eligible_only)
                non_dup == NonDuplicated(eligible_passwords, password_list)
            IN  /\ IF variant = "sync"
                   THEN /\ stats_log' = Append(stats_log, StatsOf(r))
                        /\ max_entropy' = <<r.max>>
                   ELSE UNCHANGED <<stats_log, max_entropy>>
                /\ non_duplicated_passwords' = non_dup
                /\ total_duplicates' = <<Len(eligible_passwords) - Len(non_dup)>>
                /\ most_common' = <<MostCommon(password_list)>>
                /\ IF non_dup # <<>>
                   THEN /\ \E p \in Range(non_dup) : selected_password' = <<p>>
                        /\ UNCHANGED warning
                   ELSE /\ warning' = "No non-duplicated passwords meeting the entropy requirement."
                        /\ UNCHANGED selected_password
       ELSE /\ warning' = "No passwords meeting the entropy requirement."
            /\ UNCHANGED <<stats_log, max_entropy, non_duplicated_passwords,
                           total_duplicates, most_common, selected_password>>
    /\ pc' = "done"
    /\ UNCHANGED <<variant, source, args, error, password_list, eligible_passwords>>
    /\ UNCHANGED keepassxcVars

-----------------------------------------------------------------------------
(* The nist pipeline *)

\* The mutant of NistChoices: recurring passwords are filtered out first, and
\* nothing is chosen when none is left
NistChoicesUnique(passwords) ==
    LET unique == { p \in Range(passwords) : Counter(passwords)[p] = 1 }
    IN  IF unique = {} THEN { <<>> } ELSE { <<p>> : p \in unique }

\* secrets.choice(password_list) on a non-empty list: the values chosen_password can take
NistChoices(passwords) == { <<p>> : p \in Range(passwords) }

\* chosen_password = secrets.choice(password_list); IndexError on an empty list
NistChoose ==
    /\ pc = "choose"
    /\ IF password_list = <<>>
       THEN /\ Crash("IndexError")
            /\ UNCHANGED selected_password
       ELSE /\ selected_password' \in NistChoices(password_list)
            /\ pc' = "done"
            /\ UNCHANGED error
    /\ UNCHANGED <<variant, source, args, password_list, stats_log, max_entropy,
                   non_duplicated_passwords, warning>>
    /\ UNCHANGED shannonVars
    /\ UNCHANGED keepassxcVars

-----------------------------------------------------------------------------
(* The keepassxc pipeline *)

FailureKinds == {"nonzero_exit", "no_entropy_line", "unparseable", "unavailable"}

\* What one invocation of keepassxc-cli can come to: an "Entropy" line with a number
\* in its fourth field, a nonzero exit status, a report without a usable "Entropy"
\* line, an "Entropy" line whose fourth field is no number, or no process at all
Reports ==
    [ kind : {"entropy"}, bits : 0..MaxBits ] \cup [ kind : FailureKinds, bits : {0} ]

Failed(report) == report.kind \in FailureKinds

\* calculate_entropy_keepassxc / calculate_entropy_keepassxc_async: the float returned,
\* or the exception that escapes.  Only CalledProcessError is caught; the asyncio
\* subprocess never raises it, and a nonzero exit leaves no "Entropy" line on stdout.
calculate_entropy_keepassxc(v, report) ==
    CASE report.kind = "entropy" ->
            [ raised |-> FALSE, exception |-> "none", value |-> report.bits ]
      [] report.kind \in {"nonzero_exit", "no_entropy_line"} ->
            [ raised |-> FALSE, exception |-> "none", value |-> 0 ]
      [] report.kind = "unparseable" ->
            [ raised |-> TRUE, exception |-> "ValueError: could not convert string to float",
              value |-> 0 ]
      [] OTHER ->
            [ raised |-> TRUE, exception |-> "FileNotFoundError", value |-> 0 ]

\* sample_passwords[entropy_values.index(max_entropy)]
StrongestPassword(passwords, values) ==
    passwords[MinOf({ i \in 1..Len(values) : values[i] = MaxOf(Range(values)) })]

\* The mutant of Accepts: the membership test is dropped
AcceptsRepeated(floor, score, requirement, pw, accepted) ==
    floor <= score /\ score <= requirement

\* min_accepted_entropy <= entropy <= entropy_requirement
\*     and password not in non_duplicated_passwords
Accepts(floor, score, requirement, pw, accepted) ==
    /\ floor <= score
    /\ score <= requirement
    /\ pw \notin Range(accepted)

\* The orders in which the oracle calls of a batch of n can finish: one after the
\* other in the list comprehension of main, in any order under asyncio.gather
CompletionOrders(v, n) ==
    IF v = "sync" THEN { [ k \in 1..n |-> k ] }
    ELSE { order \in [ 1..n -> 1..n ] : \A j, k \in 1..n : order[j] = order[k] => j = k }

\* The mutant of gather: the results are listed in order of completion
gather_as_completed(n, completed) ==
    [ k \in 1..n |-> completed[k].value ]

\* asyncio.gather(*aws) / the list comprehension: the result of the call for the
\* i-th batch element is the i-th element of the list
gather(n, completed) ==
    [ i \in 1..n |->
        completed[CHOOSE k \in 1..Len(completed) : completed[k].index = i].value ]

\* entropy_values = [calculate_entropy_keepassxc(password) for password in sample_passwords]
\* / await asyncio.gather(...): the first exception to escape a call ends the run
KeepassxcScore ==
    /\ pc = "score"
    /\ \E reports \in [ 1..Len(password_list) -> Reports ],
          order \in CompletionOrders(variant, Len(password_list)) :
         LET n == Len(password_list)
             results == [ i \in 1..n |-> calculate_entropy_keepassxc(variant, reports[i]) ]
             raising == { k \in 1..n : results[order[k]].raised }
             last == IF raising = {} THEN n ELSE MinOf(raising)
             completed == [ k \in 1..last |->
                              [ index |-> order[k], value |-> results[order[k]].value ] ]
         IN  /\ oracle_reports' = reports
             /\ completed_tasks' = completed
             /\ IF raising # {}
                THEN /\ Crash(results[order[last]].exception)
                     /\ UNCHANGED entropy_values
                ELSE /\ entropy_values' = gather(n, completed)
                     /\ pc' = "kstats"
                     /\ UNCHANGED error
    /\ UNCHANGED <<variant, source, args, password_list, stats_log, max_entropy,
                   non_duplicated_passwords, selected_password, warning,
                   strongest_password, min_accepted_entropy, password, entropy,
                   accepted_log>>
    /\ UNCHANGED shannonVars

\* min / max / average, the strongest password, the requirement and the floor, as
\* variant v computes them.  min() of an empty list raises ValueError.  In the asyncio
\* variant args is a local of main_async, so args.cushion raises NameError once the
\* statistics are logged.
KeepassxcStatsAs(v) ==
    /\ pc = "kstats"
    /\ IF entropy_values = <<>>
       THEN /\ Crash("ValueError: min() arg is an empty sequence")
            /\ UNCHANGED <<stats_log, max_entropy, strongest_password, min_accepted_entropy>>
       ELSE /\ stats_log' = Append(stats_log,
                                   [ min |-> MinOf(Range(entropy_values)),
                                     max |-> MaxOf(Range(entropy_values)),
                                     average |-> SumSeq(entropy_values) \div Len(entropy_values) ])
            /\ max_entropy' = <<MaxOf(Range(entropy_values))>>
            /\ strongest_password' = <<StrongestPassword(password_list, entropy_values)>>
            /\ IF v = "sync"
               THEN /\ min_accepted_entropy' = <<MaxOf(Range(entropy_values)) - args.cushion>>
                    /\ pc' = "loop"
                    /\ UNCHANGED error
               ELSE /\ Crash("NameError")
                    /\ UNCHANGED min_accepted_entropy
    /\ UNCHANGED <<variant, source, args, password_list, non_duplicated_passwords,
                   selected_password, warning, oracle_reports, entropy_values,
                   password, entropy, completed_tasks, accepted_log>>
    /\ UNCHANGED shannonVars

KeepassxcStats == KeepassxcStatsAs(variant)

\* One iteration of: while len(non_duplicated_passwords) < args.generate
KeepassxcIterate ==
    /\ pc = "loop"
    /\ Len(non_duplicated_passwords) < args.generate
    /\ \E pw \in generate_password(source, args.length), report \in Reports :
         LET r == calculate_entropy_keepassxc(variant, report)
         IN  /\ password' = <<pw>>
             /\ IF r.raised
                THEN /\ Crash(r.exception)
                     /\ UNCHANGED <<entropy, non_duplicated_passwords, accepted_log>>
                ELSE /\ entropy' = <<r.value>>
                     /\ IF Accepts(min_accepted_entropy[1], r.value, max_entropy[1], pw,
                                   non_duplicated_passwords)
                        THEN /\ non_duplicated_passwords' = Append(non_duplicated_passwords, pw)
                             /\ accepted_log' = Append(accepted_log,
                                                       [ entropy |-> r.value, report |-> report ])
                        ELSE UNCHANGED <<non_duplicated_passwords, accepted_log>>
                     /\ UNCHANGED <<pc, error>>
    /\ UNCHANGED <<variant, source, args, password_list, stats_log, max_entropy,
                   selected_password, warning, oracle_reports, entropy_values,
                   strongest_password, min_accepted_entropy, completed_tasks>>
    /\ UNCHANGED shannonVars

\* The loop's exit and the choice that follows it
KeepassxcChoose ==
    /\ pc = "loop"
    /\ ~(Len(non_duplicated_passwords) < args.generate)
    /\ IF non_duplicated_passwords # <<>>
       THEN /\ \E p \in Range(non_duplicated_passwords) : selected_password' = <<p>>
            /\ UNCHANGED warning
       ELSE /\ warning' = "No non-duplicated passwords meeting the entropy requirement."
            /\ UNCHANGED selected_password
    /\ pc' = "done"
    /\ UNCHANGED <<variant, source, args, error, password_list, stats_log, max_entropy,
                   non_duplicated_passwords>>
    /\ UNCHANGED shannonVars
    /\ UNCHANGED keepassxcVars

-----------------------------------------------------------------------------

Next ==
    \/ GenerateSamples
    \/ ShannonStats
    \/ ShannonEligible
    \/ ShannonSelect
    \/ NistChoose
    \/ KeepassxcScore
    \/ KeepassxcStats
    \/ KeepassxcIterate
    \/ KeepassxcChoose

Spec == Init /\ [][Next]_vars

-----------------------------------------------------------------------------
(* Properties of the shannon pipeline *)

Occurrences(pw, passwords) == Cardinality({ i \in 1..Len(passwords) : passwords[i] = pw })

\* C1: in the shannon pipeline, once the statistics of a non-empty batch are logged,
\* every logged max equals the threshold; the eligible passwords are exactly the
\* batch elements whose score is at least the logged max; and a selected password
\* scores at least the threshold and occurs exactly once in the batch.
C1_ShannonSelectionMeetsThresholdOnce ==
    (args.method = "shannon" /\ password_list # <<>> /\ max_entropy # <<>>) =>
        /\ \A i \in DOMAIN stats_log : stats_log[i].max = max_entropy[1]
        /\ pc \in {"select", "done"} =>
             /\ \A i \in DOMAIN eligible_passwords :
                    eligible_passwords[i].entropy >= stats_log[1].max
             /\ \A i \in DOMAIN password_list :
                    calculate_entropy_shannon(password_list[i]) >= stats_log[1].max
                        => \E j \in DOMAIN eligible_passwords :
                               eligible_passwords[j].password = password_list[i]
        /\ selected_password # <<>> =>
             /\ calculate_entropy_shannon(selected_password[1]) >= max_entropy[1]
             /\ Occurrences(selected_password[1], password_list) = 1

\* C1 witness: a selection was made from a batch in which a threshold-meeting
\* password recurs.
C1_Witness ==
    /\ args.method = "shannon"
    /\ pc = "done"
    /\ selected_password # <<>>
    /\ \E i \in DOMAIN eligible_passwords :
           Occurrences(eligible_passwords[i].password, password_list) = 2

\* C11: in the shannon pipeline with a non-empty batch, once the batch is filtered
\* some password meets the threshold (the eligible list is not empty), the warning
\* "No passwords meeting the entropy requirement." is never issued, and a run that
\* ends without a selection ends with every eligible password recurring in the batch.
C11_ThresholdAlwaysMet ==
    (args.method = "shannon" /\ password_list # <<>>) =>
        /\ pc \in {"select", "done"} =>
               /\ eligible_passwords # <<>>
               /\ \E i \in DOMAIN password_list :
                      calculate_entropy_shannon(password_list[i]) >= stats_log[1].max
        /\ warning # "No passwords meeting the entropy requirement."
        /\ (pc = "done" /\ selected_password = <<>>) =>
               /\ warning = "No non-duplicated passwords meeting the entropy requirement."
               /\ \A i \in DOMAIN eligible_passwords :
                      Occurrences(eligible_passwords[i].password, password_list) >= 2

\* C11 witness: a run ended without a selection, on a batch whose threshold-meeting
\* passwords all recur while a password below the threshold occurs once.
C11_Witness ==
    /\ args.method = "shannon"
    /\ pc = "done"
    /\ selected_password = <<>>
    /\ eligible_passwords # <<>>
    /\ \E i \in DOMAIN password_list :
           /\ calculate_entropy_shannon(password_list[i]) < max_entropy[1]
           /\ Occurrences(password_list[i], password_list) = 1

-----------------------------------------------------------------------------
(* Properties of generation *)

\* C2: for a requested length >= 1, every password of the batch, and every password
\* drawn in the keepassxc loop, has exactly args.length symbols, all of them in
\* CHARSET; the batch has exactly args.samples elements (recurring ones included).
C2_CandidatesHaveLengthAndAlphabet ==
    (args.length >= 1 /\ args.samples >= 0 /\ pc # "start") =>
        /\ Len(password_list) = args.samples
        /\ \A i \in DOMAIN password_list :
               /\ Len(password_list[i]) = args.length
               /\ Range(password_list[i]) \subseteq CHARSET
        /\ password # <<>> =>
               /\ Len(password[1]) = args.length
               /\ Range(password[1]) \subseteq CHARSET

\* C2 witness: a batch of the largest size and length in which a password recurs.
C2_Witness ==
    /\ pc # "start"
    /\ args.length = MaxLength
    /\ args.samples = MaxSamples
    /\ Len(password_list) = MaxSamples
    /\ \E i, j \in DOMAIN password_list : i # j /\ password_list[i] = password_list[j]

-----------------------------------------------------------------------------
(* Properties of the keepassxc pipeline *)

\* C3: in the keepassxc pipeline with a target size >= 0, the accepted list never
\* holds a string twice, every member was scored within [max - cushion, max] of the
\* initial batch when it was added, the list is never longer than the target, the
\* loop is left only with exactly the target size, and the chosen password is a
\* member of the list.
C3_AcceptedSetInvariant ==
    (args.method = "keepassxc" /\ args.generate >= 0) =>
        /\ \A i, j \in DOMAIN non_duplicated_passwords :
               non_duplicated_passwords[i] = non_duplicated_passwords[j] => i = j
        /\ Len(accepted_log) = Len(non_duplicated_passwords)
        /\ \A i \in DOMAIN accepted_log :
               /\ MaxOf(Range(entropy_values)) - args.cushion <= accepted_log[i].entropy
               /\ accepted_log[i].entropy <= MaxOf(Range(entropy_values))
        /\ Len(non_duplicated_passwords) <= args.generate
        /\ pc = "done" => Len(non_duplicated_passwords) = args.generate
        /\ selected_password # <<>> => selected_password[1] \in Range(non_duplicated_passwords)

\* C3 witness: the loop ended with two accepted passwords, one of them scored below
\* the requirement, after an iteration that drew an already accepted password, and
\* one of them was chosen.
C3_Witness ==
    /\ args.method = "keepassxc"
    /\ pc = "done"
    /\ Len(non_duplicated_passwords) = 2
    /\ args.generate = 2
    /\ \E i \in DOMAIN accepted_log : accepted_log[i].entropy < max_entropy[1]
    /\ selected_password # <<>>

\* Inputs the specification calls well-formed
ValidInputs == args.length >= 1 /\ args.samples >= 1 /\ args.generate >= 0

\* C4: for well-formed inputs, a candidate whose oracle call failed has no numeric score among the batch's
\* entropy values (and so no part in min, max and mean), and is never accepted.
C4_FailedCallsAreNotScores ==
    (args.method = "keepassxc" /\ ValidInputs) =>
        /\ \A i \in DOMAIN entropy_values : ~Failed(oracle_reports[i])
        /\ \A i \in DOMAIN accepted_log : ~Failed(accepted_log[i].report)

\* The score the oracle's answer for the i-th batch element comes to
OwnScore(i) == calculate_entropy_keepassxc(variant, oracle_reports[i]).value

\* C12: in the asyncio keepassxc pipeline, whatever the order in which the oracle
\* calls of the batch finished, once the statistics are logged every entropy value
\* is the score of the call made for the batch element at its position, the
\* strongest password is a batch element whose own score is the logged max, and
\* min, max and mean are those of the batch's own scores.
C12_ScoresStayWithTheirCandidates ==
    (variant = "async" /\ args.method = "keepassxc" /\ stats_log # <<>>) =>
        /\ Len(entropy_values) = Len(password_list)
        /\ \A i \in DOMAIN password_list : entropy_values[i] = OwnScore(i)
        /\ strongest_password # <<>>
        /\ \E i \in DOMAIN password_list :
               /\ password_list[i] = strongest_password[1]
               /\ OwnScore(i) = stats_log[1].max
        /\ stats_log[1].min = MinOf({ OwnScore(i) : i \in DOMAIN password_list })
        /\ stats_log[1].max = MaxOf({ OwnScore(i) : i \in DOMAIN password_list })
        /\ stats_log[1].average =
               SumSeq([ i \in DOMAIN password_list |-> OwnScore(i) ]) \div Len(password_list)

\* C12 witness: the statistics of a batch of two different passwords with different
\* scores were logged after the call for the second finished before the call for
\* the first.
C12_Witness ==
    /\ variant = "async"
    /\ args.method = "keepassxc"
    /\ stats_log # <<>>
    /\ Len(password_list) = 2
    /\ password_list[1] # password_list[2]
    /\ Len(completed_tasks) = 2
    /\ completed_tasks[1].index = 2
    /\ completed_tasks[1].value > completed_tasks[2].value

\* The exceptions calculate_entropy_keepassxc lets escape
OracleExceptions == {"FileNotFoundError", "ValueError: could not convert string to float"}

\* C5: every run with a length >= 1 and a sample count >= 1 ends, with a selection
\* result or a failure.
C5_RunTerminates ==
    (args.length >= 1 /\ args.samples >= 1) => <>(pc \in {"done", "crashed"})

\* C8: for well-formed inputs, once the oracle has been asked about the batch, every
\* candidate has an entry in entropy_values (the scoring went through the whole
\* batch) and no oracle failure has ended the run.
C8_OracleFailureDoesNotAbort ==
    (args.method = "keepassxc" /\ ValidInputs /\ oracle_reports # <<>>) =>
        /\ Len(entropy_values) = Len(password_list)
        /\ error \notin OracleExceptions

\* C9: for well-formed inputs, when the oracle failed for every candidate of the
\* batch, the run is at the statistics step or has logged the statistics.
C9_AllFailedStatisticsDefined ==
    ( /\ args.method = "keepassxc"
      /\ ValidInputs
      /\ oracle_reports # <<>>
      /\ \A i \in DOMAIN oracle_reports : Failed(oracle_reports[i]) ) =>
        pc = "kstats" \/ stats_log # <<>>

-----------------------------------------------------------------------------
(* The two variants compared *)

\* How the statistics step can end: where the run goes on, and with which exception
StatsOutcomes ==
    [ pc : {"loop", "crashed"},
      error : {"none", "NameError", "ValueError: min() arg is an empty sequence"} ]

\* C13: given the same batch and the same oracle scores, the statistics step of the
\* keepassxc pipeline ends the same way in both variants: each goes on to the
\* acceptance loop exactly when the other does, and each ends in an exception
\* exactly when the other ends in that exception.
C13_VariantsEndAlike ==
    pc = "kstats" =>
        \A o \in StatsOutcomes :
            ENABLED (KeepassxcStatsAs("sync") /\ pc' = o.pc /\ error' = o.error)
                <=> ENABLED (KeepassxcStatsAs("async") /\ pc' = o.pc /\ error' = o.error)

-----------------------------------------------------------------------------
(* Input validation *)

\* C6: with a length <= 0 or a sample count < 1 nothing is generated, scored or
\* selected, and the run ends, if at all, with InvalidLengthError or InvalidCountError.
C6_MalformedInputsRejected ==
    (args.length <= 0 \/ args.samples < 1) =>
        /\ password_list = <<>>
        /\ stats_log = <<>>
        /\ entropy_values = <<>>
        /\ selected_password = <<>>
        /\ error \in {"none", "InvalidLengthError", "InvalidCountError"}

-----------------------------------------------------------------------------
(* Properties of the nist pipeline *)

\* C7: in the nist pipeline with a sample count >= 1, every element of the batch can
\* be chosen (none is filtered out), the run ends with a chosen password, and the
\* chosen password is an element of the batch, which still has all its elements.
C7_NistAlwaysSelectsFromBatch ==
    (args.method = "nist" /\ args.samples >= 1) =>
        /\ pc = "choose" =>
               \A i \in DOMAIN password_list :
                   ENABLED (NistChoose /\ selected_password' = <<password_list[i]>>)
        /\ pc \notin {"start", "choose"} =>
               /\ pc = "done"
               /\ selected_password # <<>>
               /\ selected_password[1] \in Range(password_list)
               /\ Len(password_list) = args.samples

\* C7 witness: the nist pipeline chose a password that recurs in its batch.
C7_Witness ==
    /\ args.method = "nist"
    /\ pc = "done"
    /\ selected_password # <<>>
    /\ Occurrences(selected_password[1], password_list) >= 2

-----------------------------------------------------------------------------
(* The end-to-end scenario: length 8, 5 samples, shannon, a substituted random source *)

Init10 ==
    /\ variant \in {"sync", "async"}
    /\ source = "fixed"
    /\ args = [ length |-> 8, samples |-> 5, method |-> "shannon", cushion |-> 0,
                generate |-> 0 ]
    /\ InitRest

Next10 ==
    \/ GenerateSamples
    \/ ShannonStats
    \/ ShannonEligible
    \/ ShannonSelect

Spec10 == Init10 /\ [][Next10]_vars

\* Five candidates of length 8, one string value twice and three others once, all
\* with the same score, the largest a length-8 string can have
ScenarioBatch ==
    /\ Len(password_list) = 5
    /\ Cardinality(Range(password_list)) = 4
    /\ \A i \in DOMAIN password_list :
           /\ Len(password_list[i]) = 8
           /\ calculate_entropy_shannon(password_list[i]) = Log2Milli[8]

MaxScoreOfBatch ==
    MaxOf({ calculate_entropy_shannon(password_list[i]) : i \in DOMAIN password_list })

\* C10 as stated: at the end of the scenario the reported duplicate count is 1, the
\* threshold is the largest score of the five, and the selected password does not recur.
C10_ScenarioAsStated ==
    (pc = "done" /\ ScenarioBatch) =>
        /\ total_duplicates = <<1>>
        /\ max_entropy = <<MaxScoreOfBatch>>
        /\ selected_password # <<>>
        /\ Occurrences(selected_password[1], password_list) = 1

\* C10 as amended: at the end of the scenario the reported "Total Duplicates" is 2
\* (both occurrences of the recurring string are counted), the most common password
\* is reported with 2 occurrences, the threshold is the largest score of the five,
\* and a password is selected that does not recur.
C10_ScenarioTwoDuplicates ==
    (pc = "done" /\ ScenarioBatch) =>
        /\ total_duplicates = <<2>>
        /\ most_common # <<>>
        /\ most_common[1].count = 2
        /\ Occurrences(most_common[1].password, password_list) = 2
        /\ max_entropy = <<MaxScoreOfBatch>>
        /\ selected_password # <<>>
        /\ Occurrences(selected_password[1], password_list) = 1

\* C10 witness: the scenario ran to its end on the batch
\* "aB3!xY7#", "aB3!xY7#", "Qw2@Lp9$", "Zr5^Mn1&", "Tv8*Wx4(".
C10_Witness ==
    /\ pc = "done"
    /\ ScenarioBatch
    /\ password_list = << <<1, 28, 56, 63, 24, 51, 60, 65>>,
                          <<1, 28, 56, 63, 24, 51, 60, 65>>,
                          <<43, 23, 55, 84, 38, 16, 62, 66>>,
                          <<52, 18, 58, 88, 39, 14, 54, 68>>,
                          <<46, 22, 61, 72, 49, 24, 57, 70>> >>
    /\ selected_password # <<>>

-----------------------------------------------------------------------------
(* Termination *)

\* An iteration of the keepassxc loop that accepts its candidate
AcceptStep ==
    KeepassxcIterate /\ Len(non_duplicated_passwords') > Len(non_duplicated_passwords)

\* The run is never suspended for ever, and secrets.choice and the oracle are taken
\* to be as favourable as they can be: an acceptance that stays possible happens.
FairSpec == Init /\ [][Next]_vars /\ WF_vars(Next) /\ SF_vars(AcceptStep)

====
